---- MODULE Spec2Model ----
(***************************************************************************)
(* The TIS-100 cycle engine of src/src/main.rs: twelve execution nodes,    *)
(* the port grid (one mailbox per edge) and ExecutionPlane::step, which    *)
(* advances the whole plane by one cycle.                                  *)
(*                                                                         *)
(* An Option<T> is a sequence of length at most one: None is << >> and     *)
(* Some(x) is << x >>.  A panic of the Rust program (panic!, unwrap on     *)
(* None, unimplemented!, unreachable!) stops the cycle where it is raised; *)
(* the variable fault then holds its message and the plane steps no more.  *)
(***************************************************************************)
EXTENDS Integers, Sequences, FiniteSets, TLC

\* ------------------------------------------------------------------ bounds
\* number of plane steps a behaviour takes
MaxCycles == 6
\* literals of the loaded programs are 1..MaxLit
MaxLit == 1
\* the loaded programs hold at most MaxInstr instructions, all nodes together
MaxInstr == 3

\* ------------------------------------------------------- program constants
NODES_PER_PLANE == 12
INSTRUCTIONS_PER_NODE == 21
NumPorts == 31
I16Max == 32767
I16Min == -32768

None == << >>
Some(x) == << x >>

NoPanic == "none"

Nodes == 0 .. (NODES_PER_PLANE - 1)
Edges == 0 .. (NumPorts - 1)
Slots == 0 .. (INSTRUCTIONS_PER_NODE - 1)

\* --------------------------------------------------------------- operands
PortOp(p) == [k |-> "Port", v |-> p]
RegOp(r) == [k |-> "Register", v |-> r]
LitOp(x) == [k |-> "Literal", v |-> x]
NoOp == [k |-> "Absent", v |-> 0]

Mov(s, d) == [op |-> "Mov", src |-> s, dst |-> d]
Add(s) == [op |-> "Add", src |-> s, dst |-> NoOp]
Sub(s) == [op |-> "Sub", src |-> s, dst |-> NoOp]
Sav == [op |-> "Sav", src |-> NoOp, dst |-> NoOp]
Swp == [op |-> "Swp", src |-> NoOp, dst |-> NoOp]
Neg == [op |-> "Neg", src |-> NoOp, dst |-> NoOp]
Hcf == [op |-> "Hcf", src |-> NoOp, dst |-> NoOp]

\* TruePort::reverse
reverse(direction) ==
  CASE direction = "Left" -> "Right"
    [] direction = "Up" -> "Down"
    [] direction = "Right" -> "Left"
    [] direction = "Down" -> "Up"

\* Instruction::get_src
get_src(ins) ==
  IF ins.op \in {"Mov", "Sub", "Add", "Jro", "Jez", "Jnz", "Jgz", "Jlz"}
  THEN Some(ins.src) ELSE None

\* the sum with the slip of wrapping around like i16::wrapping_add
saturating_add_Wrapping(a, b) ==
  ((a + b - I16Min) % (I16Max - I16Min + 1)) + I16Min

\* i16::saturating_add
saturating_add(a, b) ==
  IF a + b > I16Max THEN I16Max
  ELSE IF a + b < I16Min THEN I16Min ELSE a + b

\* --------------------------------------------------------- ExecutionNode
\* ExecutionNode::new
NewNode ==
  [acc |-> 0, bak |-> 0, instruction_pointer |-> 0,
   current_instruction |-> None, port_read_buffer |-> None,
   port_write_buffer |-> None, direction |-> None, last_port |-> None,
   mode |-> "Run"]

\* the result of a node method: the node as the method left it, and the
\* panic it raised, if any
Ok(n) == [n |-> n, panic |-> NoPanic]
Panicked(n, msg) == [n |-> n, panic |-> msg]

\* ExecutionNode::map_port; None stands for the failed unwrap of last_port
node_map_port(n, port) ==
  IF port = "Last" THEN n.last_port ELSE Some(port)

\* fetch with the slip of latching nothing in the cycle in which it leaves
\* an empty slot for slot 0
fetch_IdleOnWrap(n, instrs) ==
  IF instrs[n.instruction_pointer] # None
  THEN [n EXCEPT !.current_instruction = instrs[n.instruction_pointer]]
  ELSE [n EXCEPT !.instruction_pointer = 0,
                 !.current_instruction = None]

\* ExecutionNode::fetch, on the node's chunk of the instruction store
fetch(n, instrs) ==
  IF instrs[n.instruction_pointer] # None
  THEN [n EXCEPT !.current_instruction = instrs[n.instruction_pointer]]
  ELSE [n EXCEPT !.instruction_pointer = 0,
                 !.current_instruction = instrs[0]]

\* the increment with the slip of comparing with > where the code has >=
increment_instruction_pointer_LateWrap(n) ==
  IF n.instruction_pointer + 1 > INSTRUCTIONS_PER_NODE
  THEN [n EXCEPT !.instruction_pointer = 0]
  ELSE [n EXCEPT !.instruction_pointer = n.instruction_pointer + 1]

\* ExecutionNode::increment_instruction_pointer
increment_instruction_pointer(n) ==
  IF n.instruction_pointer + 1 >= INSTRUCTIONS_PER_NODE
  THEN [n EXCEPT !.instruction_pointer = 0]
  ELSE [n EXCEPT !.instruction_pointer = n.instruction_pointer + 1]

\* resolve_write with the slip of leaving ip where it is
resolve_write_KeepsIp(n) == [n EXCEPT !.mode = "Run"]

\* ExecutionNode::resolve_write
resolve_write(n) ==
  increment_instruction_pointer([n EXCEPT !.mode = "Run"])

\* read_step with the slip of not recording the direction in last_port
read_step_ForgetsLast(n) ==
  IF n.mode = "Read" \/ n.mode = "Write" THEN Ok(n)
  ELSE IF n.current_instruction = None THEN Ok(n)
  ELSE LET src == get_src(n.current_instruction[1]) IN
       IF src = None THEN Ok(n)
       ELSE IF src[1].k # "Port" THEN Ok(n)
       ELSE LET m == [n EXCEPT !.mode = "Read"]
                p == node_map_port(m, src[1].v)
            IN IF p = None THEN Panicked(m, "unwrap on None")
               ELSE Ok([m EXCEPT !.direction = p])

\* ExecutionNode::read_step
read_step(n) ==
  IF n.mode = "Read" \/ n.mode = "Write" THEN Ok(n)
  ELSE IF n.current_instruction = None THEN Ok(n)
  ELSE LET src == get_src(n.current_instruction[1]) IN
       IF src = None THEN Ok(n)
       ELSE IF src[1].k # "Port" THEN Ok(n)
       ELSE LET m == [n EXCEPT !.mode = "Read"]
                p == node_map_port(m, src[1].v)
            IN IF p = None THEN Panicked(m, "unwrap on None")
               ELSE Ok([m EXCEPT !.direction = p, !.last_port = p])

\* mov with the slip of leaving the mode in Read after a successful read
mov_NoReset(n, src, dst) ==
  LET value == IF src.k = "Port" THEN n.port_read_buffer
               ELSE IF src.k = "Register"
                    THEN (IF src.v = "Acc" THEN Some(n.acc) ELSE Some(0))
                    ELSE Some(src.v)
  IN IF value = None THEN Ok(n)
     ELSE IF dst.k = "Port"
          THEN IF n.mode # "Write"
               THEN LET m == [n EXCEPT !.mode = "Write",
                                       !.port_write_buffer = value]
                        p == node_map_port(m, dst.v)
                    IN IF p = None THEN Panicked(m, "unwrap on None")
                       ELSE Ok([m EXCEPT !.direction = p, !.last_port = p])
               ELSE Ok(n)
          ELSE IF dst.v = "Acc" THEN Ok([n EXCEPT !.acc = value[1]])
               ELSE Ok(n)

\* ExecutionNode::mov
mov(n, src, dst) ==
  LET n1 == IF src.k = "Port" /\ n.port_read_buffer # None /\ n.mode # "Write"
            THEN [n EXCEPT !.mode = "Run"] ELSE n
      value == IF src.k = "Port" THEN n.port_read_buffer
               ELSE IF src.k = "Register"
                    THEN (IF src.v = "Acc" THEN Some(n.acc) ELSE Some(0))
                    ELSE Some(src.v)
  IN IF value = None THEN Ok(n1)
     ELSE IF dst.k = "Port"
          THEN IF n1.mode # "Write"
               THEN LET m == [n1 EXCEPT !.mode = "Write",
                                        !.port_write_buffer = value]
                        p == node_map_port(m, dst.v)
                    IN IF p = None THEN Panicked(m, "unwrap on None")
                       ELSE Ok([m EXCEPT !.direction = p, !.last_port = p])
               ELSE Ok(n1)
          ELSE IF dst.v = "Acc" THEN Ok([n1 EXCEPT !.acc = value[1]])
               ELSE Ok(n1)

\* add with the slip of leaving the mode in Read after a successful read
add_StaysInRead(n, src) ==
  IF n.mode = "Read"
  THEN IF n.port_read_buffer # None
       THEN Ok([n EXCEPT !.acc = saturating_add(n.acc, n.port_read_buffer[1])])
       ELSE Ok(n)
  ELSE IF src.k = "Register"
       THEN IF src.v = "Acc"
            THEN Ok([n EXCEPT !.acc = saturating_add(n.acc, n.acc)])
            ELSE Ok(n)
       ELSE IF src.k = "Literal"
            THEN Ok([n EXCEPT !.acc = saturating_add(n.acc, src.v)])
            ELSE Panicked(n, "unreachable")

\* ExecutionNode::add
add(n, src) ==
  IF n.mode = "Read"
  THEN IF n.port_read_buffer # None
       THEN Ok([n EXCEPT !.acc = saturating_add(n.acc, n.port_read_buffer[1]),
                         !.mode = "Run"])
       ELSE Ok(n)
  ELSE IF src.k = "Register"
       THEN IF src.v = "Acc"
            THEN Ok([n EXCEPT !.acc = saturating_add(n.acc, n.acc)])
            ELSE Ok(n)
       ELSE IF src.k = "Literal"
            THEN Ok([n EXCEPT !.acc = saturating_add(n.acc, src.v)])
            ELSE Panicked(n, "unreachable")

\* ExecutionNode::swp
swp(n) == [n EXCEPT !.acc = n.bak, !.bak = n.acc]

\* ExecutionNode::sav
sav(n) == [n EXCEPT !.bak = n.acc]

\* ExecutionNode::neg.  -acc overflows for acc = -32768: a build with
\* overflow checks panics, a build without them wraps to -32768.
neg(n, overflow_checks) ==
  IF n.acc = I16Min
  THEN IF overflow_checks
       THEN Panicked(n, "attempt to negate with overflow")
       ELSE Ok(n)
  ELSE Ok([n EXCEPT !.acc = 0 - n.acc])

\* the match with the slip of giving HCF an arm that does nothing
dispatch_HcfIdles(n, overflow_checks) ==
  LET ins == n.current_instruction[1] IN
  IF ins.op = "Mov" THEN mov(n, ins.src, ins.dst)
  ELSE IF ins.op = "Add" THEN add(n, ins.src)
  ELSE IF ins.op = "Sav" THEN Ok(sav(n))
  ELSE IF ins.op = "Swp" THEN Ok(swp(n))
  ELSE IF ins.op = "Neg" THEN neg(n, overflow_checks)
  ELSE IF ins.op = "Hcf" THEN Ok(n)
  ELSE Panicked(n, "not implemented")

\* the match of ExecutionNode::step
dispatch(n, overflow_checks) ==
  LET ins == n.current_instruction[1] IN
  IF ins.op = "Mov" THEN mov(n, ins.src, ins.dst)
  ELSE IF ins.op = "Add" THEN add(n, ins.src)
  ELSE IF ins.op = "Sav" THEN Ok(sav(n))
  ELSE IF ins.op = "Swp" THEN Ok(swp(n))
  ELSE IF ins.op = "Neg" THEN neg(n, overflow_checks)
  ELSE Panicked(n, "not implemented")

\* step with the slip of advancing ip whatever the mode
step_AlwaysAdvance(n, overflow_checks) ==
  IF n.current_instruction = None THEN Ok(n)
  ELSE LET r == dispatch(n, overflow_checks) IN
       IF r.panic # NoPanic THEN r
       ELSE Ok(increment_instruction_pointer(r.n))

\* ExecutionNode::step
step(n, overflow_checks) ==
  IF n.current_instruction = None THEN Ok(n)
  ELSE LET r == dispatch(n, overflow_checks) IN
       IF r.panic # NoPanic THEN r
       ELSE IF r.n.mode = "Run"
            THEN Ok(increment_instruction_pointer(r.n))
            ELSE r

\* ------------------------------------------------------------- port grid
\* NODE_LUT: the neighbour of a node to the left, above, to the right, below
NODE_LUT ==
  [i \in Nodes |->
     CASE i = 0 -> << None, None, Some(1), Some(4) >>
       [] i = 1 -> << Some(0), None, Some(2), Some(5) >>
       [] i = 2 -> << Some(1), None, Some(3), Some(6) >>
       [] i = 3 -> << Some(2), None, None, Some(7) >>
       [] i = 4 -> << None, Some(0), Some(5), Some(8) >>
       [] i = 5 -> << Some(4), Some(1), Some(6), Some(9) >>
       [] i = 6 -> << Some(5), Some(2), Some(7), Some(10) >>
       [] i = 7 -> << Some(6), Some(3), None, Some(11) >>
       [] i = 8 -> << None, Some(4), Some(9), None >>
       [] i = 9 -> << Some(8), Some(5), Some(10), None >>
       [] i = 10 -> << Some(9), Some(6), Some(11), None >>
       [] i = 11 -> << Some(10), Some(7), None, None >>]

\* PORT_LUT: the edge of a node to the left, above, to the right, below
PORT_LUT ==
  [i \in Nodes |->
     CASE i = 0 -> << 4, 0, 5, 9 >>
       [] i = 1 -> << 5, 1, 6, 10 >>
       [] i = 2 -> << 6, 2, 7, 11 >>
       [] i = 3 -> << 7, 3, 8, 12 >>
       [] i = 4 -> << 13, 9, 14, 18 >>
       [] i = 5 -> << 14, 10, 15, 19 >>
       [] i = 6 -> << 15, 11, 16, 20 >>
       [] i = 7 -> << 16, 12, 17, 21 >>
       [] i = 8 -> << 22, 18, 23, 27 >>
       [] i = 9 -> << 23, 19, 24, 28 >>
       [] i = 10 -> << 24, 20, 25, 29 >>
       [] i = 11 -> << 25, 21, 26, 30 >>]

\* the tuple position the free functions select for a direction
LutColumn(direction) ==
  CASE direction = "Left" -> 1
    [] direction = "Up" -> 2
    [] direction = "Right" -> 3
    [] direction = "Down" -> 4

Cardinal == {"Left", "Up", "Right", "Down"}

\* fn map_port (defined on the cardinal directions; Any is unimplemented)
map_port(direction, i) == PORT_LUT[i][LutColumn(direction)]

\* fn reverse_map_node
reverse_map_node(direction, i) == NODE_LUT[i][LutColumn(direction)]

\* ------------------------------------------------------- ExecutionPlane
VARIABLES
  nodes,          \* ExecutionPlane.nodes
  ports,          \* ExecutionPlane.ports: the mailbox of every edge
  queued_writes,  \* ExecutionPlane.queued_writes
  clear_writes,   \* ExecutionPlane.clear_writes
  instructions,   \* ExecutionPlane.instructions, NODES_PER_PLANE chunks
  fault,          \* the panic that ended the last step, or NoPanic
  cycle,          \* history: number of calls of step so far
  before,         \* history: nodes, ports and tags when the last step began
  log,            \* history: what the last step did, in order
  tag,            \* history: per edge, who filled the mailbox and when
  tally           \* history: totals over all steps

vars == << nodes, ports, queued_writes, clear_writes, instructions, fault,
           cycle, before, log, tag, tally >>

\* the chunk of the instruction store that chunks_exact hands to node i
chunk(ins, i) == [s \in Slots |-> ins[i * INSTRUCTIONS_PER_NODE + s]]

\* The plane inside a step: the fields of ExecutionPlane the step changes
\* and the panic raised so far.
SetNode(S, i, n) == [S EXCEPT !.nodes[i] = n]
SetPanic(S, i, r) == [S EXCEPT !.nodes[i] = r.n, !.panic = r.panic]

\* the mailbox pickup with the slip of recording the neighbour whether or
\* not the mailbox held a word
DeliverRead_PushOnEmpty(S, i) ==
  LET n == S.nodes[i] IN
  IF n.mode = "Read" /\ n.direction # None
  THEN IF n.direction[1] \notin Cardinal
       THEN [S EXCEPT !.panic = "not implemented"]
       ELSE LET e == map_port(n.direction[1], i)
                index == reverse_map_node(n.direction[1], i)
                P == [S EXCEPT !.clear_writes =
                                  IF index # None THEN Append(@, index[1])
                                  ELSE @]
            IN IF S.ports[e] # None
               THEN [P EXCEPT !.nodes[i].port_read_buffer = S.ports[e],
                              !.ports[e] = None]
               ELSE P
  ELSE S

\* the mailbox pickup with the slip of copying the word where the code
\* takes it out of the mailbox
DeliverRead_CopiesWord(S, i) ==
  LET n == S.nodes[i] IN
  IF n.mode = "Read" /\ n.direction # None
  THEN IF n.direction[1] \notin Cardinal
       THEN [S EXCEPT !.panic = "not implemented"]
       ELSE LET e == map_port(n.direction[1], i)
                index == reverse_map_node(n.direction[1], i)
            IN IF S.ports[e] # None
               THEN [S EXCEPT !.nodes[i].port_read_buffer = S.ports[e],
                              !.clear_writes =
                                 IF index # None THEN Append(@, index[1])
                                 ELSE @]
               ELSE S
  ELSE S

\* step, the mailbox pickup of a node in Read (the block after read_step)
DeliverRead(S, i) ==
  LET n == S.nodes[i] IN
  IF n.mode = "Read" /\ n.direction # None
  THEN IF n.direction[1] \notin Cardinal
       THEN [S EXCEPT !.panic = "not implemented"]
       ELSE LET e == map_port(n.direction[1], i)
                index == reverse_map_node(n.direction[1], i)
            IN IF S.ports[e] # None
               THEN [S EXCEPT !.nodes[i].port_read_buffer = S.ports[e],
                              !.ports[e] = None,
                              !.clear_writes =
                                 IF index # None THEN Append(@, index[1])
                                 ELSE @]
               ELSE S
  ELSE S

\* the queuing with the slip of writing straight into the mailbox
QueueWrite_Immediate(S, i) ==
  LET n == S.nodes[i] IN
  IF n.mode = "Write" /\ n.direction # None /\ n.port_write_buffer # None
  THEN IF n.direction[1] \notin Cardinal
       THEN [S EXCEPT !.panic = "not implemented"]
       ELSE LET index == map_port(n.direction[1], i) IN
            [S EXCEPT !.ports[index] = n.port_write_buffer,
                      !.nodes[i].port_write_buffer = None]
  ELSE S

\* step, the queuing of the write of a node in Write (the block after
\* node.step)
QueueWrite(S, i) ==
  LET n == S.nodes[i] IN
  IF n.mode = "Write" /\ n.direction # None /\ n.port_write_buffer # None
  THEN IF n.direction[1] \notin Cardinal
       THEN [S EXCEPT !.panic = "not implemented"]
       ELSE LET index == map_port(n.direction[1], i) IN
            [S EXCEPT !.queued_writes[index] = n.port_write_buffer,
                      !.nodes[i].port_write_buffer = None]
  ELSE S

\* step, the body of the loop over the nodes, for node i
VisitNode(S, ins, i, overflow_checks) ==
  LET fetched == fetch(S.nodes[i], chunk(ins, i))
      r == read_step(fetched)
  IN IF r.panic # NoPanic THEN SetPanic(S, i, r)
     ELSE LET S2 == DeliverRead(SetNode(S, i, r.n), i) IN
          IF S2.panic # NoPanic THEN S2
          ELSE LET r3 == step(S2.nodes[i], overflow_checks) IN
               IF r3.panic # NoPanic THEN SetPanic(S2, i, r3)
               ELSE QueueWrite(SetNode(S2, i, r3.n), i)

\* history: the tag of the mailbox of edge e
TagOf(tg, e) == IF tg[e] = None THEN [by |-> -1, at |-> -1] ELSE tg[e][1]

\* history: what the visit of node i in cycle c did, read off the plane
\* before (S) and after (T) the visit
ObserveVisit(S, T, L, i, c) ==
  LET n == T.nodes[i]
      taken == IF S.ports = T.ports THEN {}
               ELSE {e \in Edges : S.ports[e] # None /\ T.ports[e] = None}
      filled == IF S.ports = T.ports THEN {}
                ELSE {e \in Edges : S.ports[e] = None /\ T.ports[e] # None}
      queued == IF /\ n.mode = "Write" /\ S.nodes[i].mode # "Write"
                   /\ n.direction # None /\ T.panic = NoPanic
                THEN {map_port(n.direction[1], i)} ELSE {}
      src == IF n.current_instruction = None THEN None
             ELSE get_src(n.current_instruction[1])
      portRead == /\ src # None
                  /\ src[1].k = "Port"
                  /\ S.nodes[i].mode # "Write"
                  /\ n.mode # "Read"
                  /\ T.panic = NoPanic
      e1 == CHOOSE e \in taken : TRUE
      q1 == CHOOSE e \in queued : TRUE
  IN [takes |->
        IF taken # {}
        THEN Append(L.takes,
                    [node |-> i, edge |-> e1, value |-> S.ports[e1][1],
                     by |-> TagOf(L.tag, e1).by, at |-> TagOf(L.tag, e1).at])
        ELSE L.takes,
      offers |->
        IF queued # {}
        THEN Append(L.offers,
                    [node |-> i, edge |-> q1,
                     value |-> IF n.port_write_buffer # None
                               THEN n.port_write_buffer[1]
                               ELSE IF T.queued_writes[q1] # None
                                    THEN T.queued_writes[q1][1]
                                    ELSE T.ports[q1][1]])
        ELSE L.offers,
      reads |->
        IF portRead
        THEN Append(L.reads,
                    [node |-> i, value |-> n.port_read_buffer[1],
                     fresh |-> taken # {}])
        ELSE L.reads,
      tag |-> [e \in Edges |->
                 IF e \in taken THEN None
                 ELSE IF e \in filled THEN Some([by |-> i, at |-> c])
                 ELSE L.tag[e]],
      qby |-> IF queued # {} THEN [L.qby EXCEPT ![q1] = Some(i)]
              ELSE L.qby]

\* step, the loop over the nodes, from node i on; a panic ends it
RECURSIVE RunNodes(_, _, _, _, _)
RunNodes(X, ins, i, c, overflow_checks) ==
  IF i >= NODES_PER_PLANE \/ X.S.panic # NoPanic THEN X
  ELSE LET T == VisitNode(X.S, ins, i, overflow_checks) IN
       RunNodes([S |-> T, L |-> ObserveVisit(X.S, T, X.L, i, c)],
                ins, i + 1, c, overflow_checks)

\* step, the flush of the queued writes, from edge e on
RECURSIVE WriteFlush(_, _)
WriteFlush(S, e) ==
  IF e >= NumPorts THEN S
  ELSE IF S.queued_writes[e] # None
       THEN IF S.ports[e] # None
            THEN [S EXCEPT !.panic = "write deadlock"]
            ELSE WriteFlush([S EXCEPT !.ports[e] = S.queued_writes[e],
                                      !.queued_writes[e] = None], e + 1)
       ELSE WriteFlush(S, e + 1)

\* the sweep with the slip of leaving out the clear that follows it
RECURSIVE UnblockWriters_KeepsList(_, _)
UnblockWriters_KeepsList(S, k) ==
  IF k > Len(S.clear_writes) THEN S
  ELSE UnblockWriters_KeepsList(
         [S EXCEPT !.nodes[S.clear_writes[k]] =
                      resolve_write(S.nodes[S.clear_writes[k]])], k + 1)

\* step, the sweep over clear_writes, from position k on, and the clear
RECURSIVE UnblockWriters(_, _)
UnblockWriters(S, k) ==
  IF k > Len(S.clear_writes) THEN [S EXCEPT !.clear_writes = << >>]
  ELSE UnblockWriters(
         [S EXCEPT !.nodes[S.clear_writes[k]] =
                      resolve_write(S.nodes[S.clear_writes[k]])], k + 1)

\* history: mode, direction and ip, when the sweep begins, of the nodes on
\* clear_writes from position k on
RECURSIVE SweptAs(_, _)
SweptAs(S, k) ==
  IF k > Len(S.clear_writes) THEN << >>
  ELSE << [mode |-> S.nodes[S.clear_writes[k]].mode,
           direction |-> S.nodes[S.clear_writes[k]].direction,
           ip |-> S.nodes[S.clear_writes[k]].instruction_pointer] >>
       \o SweptAs(S, k + 1)

\* history: the clear_writes list the sweep runs over, and what the nodes
\* on it are when the sweep begins
SweepLog(S) ==
  [swept |-> S.clear_writes,
   sweptAs |-> IF S.clear_writes = << >> THEN << >> ELSE SweptAs(S, 1)]

\* the two sweeps that follow the loop over the nodes
Sweeps(S) ==
  LET F == WriteFlush(S, 0) IN
  IF F.panic # NoPanic THEN F ELSE UnblockWriters(F, 1)

EmptyLog(tg) ==
  [takes |-> << >>, offers |-> << >>, reads |-> << >>, tag |-> tg,
   qby |-> [e \in Edges |-> None]]

\* ExecutionPlane::step as a function of the plane
Cycle(S0, ins, tg, c, overflow_checks) ==
  LET X == RunNodes([S |-> S0, L |-> EmptyLog(tg)], ins, 0, c,
                     overflow_checks)
      R == IF X.S.panic # NoPanic THEN X.S ELSE Sweeps(X.S)
      newTag == [e \in Edges |->
                   IF X.S.panic = NoPanic /\ X.S.ports[e] = None
                      /\ R.ports[e] # None
                   THEN Some([by |-> IF X.L.qby[e] = None THEN -1
                                   ELSE X.L.qby[e][1],
                         at |-> c])
                   ELSE X.L.tag[e]]
  IN [S |-> R, L |-> X.L, tag |-> newTag,
      sweep |-> IF R.panic = NoPanic THEN SweepLog(X.S)
                ELSE [swept |-> << >>, sweptAs |-> << >>]]

\* the builds differ only where neg overflows
BuildModes == IF \E i \in Nodes : nodes[i].acc = I16Min THEN BOOLEAN
              ELSE {FALSE}

\* ExecutionPlane::step: one call, on a plane that has not panicked
StepPlane ==
  /\ fault = NoPanic
  /\ \E overflow_checks \in BuildModes :
       \E C \in {Cycle([nodes |-> nodes, ports |-> ports,
                        queued_writes |-> queued_writes,
                        clear_writes |-> clear_writes, panic |-> NoPanic],
                       instructions, tag, cycle + 1, overflow_checks)} :
          /\ nodes' = C.S.nodes
          /\ ports' = C.S.ports
          /\ queued_writes' = C.S.queued_writes
          /\ clear_writes' = C.S.clear_writes
          /\ fault' = C.S.panic
          /\ cycle' = cycle + 1
          /\ before' = [nodes |-> nodes, ports |-> ports, tag |-> tag]
          /\ log' = [takes |-> C.L.takes, offers |-> C.L.offers,
                     reads |-> C.L.reads, swept |-> C.sweep.swept,
                     sweptAs |-> C.sweep.sweptAs]
          /\ tag' = C.tag
          /\ tally' = [offered |-> tally.offered + Len(C.L.offers),
                       taken |-> tally.taken + Len(C.L.takes),
                       read |-> tally.read + Len(C.L.reads)]
          /\ UNCHANGED instructions

\* ExecutionPlane::step, called at most MaxCycles times
PlaneStep ==
  /\ cycle < MaxCycles
  /\ StepPlane

\* ------------------------------------------------------ loaded programs
ActiveNodes == {0, 1}
LoadDirs == {"Left", "Right"}
Lits == 1 .. MaxLit

Menu ==
  {Mov(LitOp(x), PortOp(d)) : x \in Lits, d \in LoadDirs}
  \cup {Mov(PortOp(d), RegOp("Acc")) : d \in LoadDirs}
  \cup {Add(PortOp(d)) : d \in LoadDirs}
  \cup {Mov(PortOp(s), PortOp(d)) : s \in LoadDirs, d \in LoadDirs}
  \cup {Add(LitOp(1)), Hcf}

LoadSlots == ActiveNodes \X {0, 1}

Programs ==
  {prog \in [LoadSlots -> {None} \cup {Some(m) : m \in Menu}] :
     Cardinality({at \in LoadSlots : prog[at] # None}) <= MaxInstr}

\* ExecutionPlane::new: the plane before any program is loaded, and the
\* history of a plane that has not stepped
NewPlane ==
  /\ nodes = [i \in Nodes |-> NewNode]
  /\ ports = [e \in Edges |-> None]
  /\ queued_writes = [e \in Edges |-> None]
  /\ clear_writes = << >>
  /\ fault = NoPanic
  /\ cycle = 0
  /\ before = [nodes |-> [i \in Nodes |-> NewNode],
               ports |-> [e \in Edges |-> None],
               tag |-> [e \in Edges |-> None]]
  /\ log = [takes |-> << >>, offers |-> << >>, reads |-> << >>,
            swept |-> << >>, sweptAs |-> << >>]
  /\ tag = [e \in Edges |-> None]
  /\ tally = [offered |-> 0, taken |-> 0, read |-> 0]

\* ExecutionPlane::new, then get_node_instructions_mut to load the programs
Init ==
  /\ NewPlane
  /\ \E prog \in Programs :
       instructions =
         [k \in 0 .. (NODES_PER_PLANE * INSTRUCTIONS_PER_NODE - 1) |->
            LET at == << k \div INSTRUCTIONS_PER_NODE,
                         k % INSTRUCTIONS_PER_NODE >>
            IN IF at \in LoadSlots THEN prog[at] ELSE None]

Next == PlaneStep

Spec == Init /\ [][Next]_vars

\* ----------------------------------------- loaded programs, second family
\* Programs that exercise the arithmetic, all 21 slots of a node, and the
\* LAST and ANY ports.
\* number of plane steps a long program is run for
LongCycles == 23
\* an arithmetic program repeats a pattern of at most MaxBody instructions
MaxBody == 3
\* a port program holds at most MaxPortInstr instructions, at most two a node
MaxPortInstr == 3

ArithLits == {1, -42, I16Max, I16Min}

ArithMenu ==
  {Add(LitOp(x)) : x \in ArithLits} \cup {Add(RegOp("Acc")), Neg, Sav, Swp}

Bodies(n) == UNION {[1 .. m -> ArithMenu] : m \in 1 .. n}

LongLens == {INSTRUCTIONS_PER_NODE - 1, INSTRUCTIONS_PER_NODE}

\* a node's chunk with no instruction
Idle == [s \in Slots |-> None]

\* a node's chunk whose slots 0 .. k-1 repeat the pattern body
Pattern(body, k) ==
  [s \in Slots |-> IF s < k THEN Some(body[(s % Len(body)) + 1]) ELSE None]

\* a node's chunk holding the sequence of instructions seq from slot 0 on
Listing(seq) ==
  [s \in Slots |-> IF s < Len(seq) THEN Some(seq[s + 1]) ELSE None]

\* node 0 runs an arithmetic pattern, as long as the pattern or over (nearly)
\* all of its slots
ArithPrograms ==
  {[i \in Nodes |-> IF i = 0 THEN Pattern(body, Len(body)) ELSE Idle] :
     body \in Bodies(MaxBody)}
  \cup {[i \in Nodes |-> IF i = 0 THEN Pattern(body, k) ELSE Idle] :
          body \in Bodies(2), k \in LongLens}

PortMenu ==
  {Mov(LitOp(1), PortOp(d)) : d \in {"Left", "Right", "Last", "Any"}}
  \cup {Mov(PortOp(d), RegOp("Acc")) : d \in {"Left", "Right", "Last", "Any"}}
  \cup {Add(PortOp("Last")), Mov(PortOp("Left"), PortOp("Last")),
        Add(LitOp(1))}

PortSeqs == UNION {[1 .. m -> PortMenu] : m \in 0 .. 2}

\* nodes 0 and 1 run short programs over the ports
PortPrograms ==
  {[i \in Nodes |-> IF i = 0 THEN Listing(a)
                    ELSE IF i = 1 THEN Listing(b) ELSE Idle] :
     << a, b >> \in {pr \in PortSeqs \X PortSeqs :
                       Len(pr[1]) + Len(pr[2]) <= MaxPortInstr}}

\* a node writes its acc from its last slot to a neighbour that reads it
RelayPrograms ==
  {[i \in Nodes |->
      IF i = w
      THEN [Pattern(<< Add(LitOp(1)) >>, INSTRUCTIONS_PER_NODE - 1)
              EXCEPT ![INSTRUCTIONS_PER_NODE - 1] =
                Some(Mov(RegOp("Acc"),
                         PortOp(IF w = 0 THEN "Right" ELSE "Left")))]
      ELSE IF i = 1 - w
           THEN Listing(<< rd >>)
           ELSE Idle] :
     w \in {0, 1},
     rd \in {Mov(PortOp("Left"), RegOp("Acc")),
             Mov(PortOp("Right"), RegOp("Acc"))}}

\* ExecutionPlane::new, then get_node_instructions_mut to load the programs
ProgramInit ==
  /\ NewPlane
  /\ \E prog \in ArithPrograms \cup PortPrograms \cup RelayPrograms :
       instructions =
         [k \in 0 .. (NODES_PER_PLANE * INSTRUCTIONS_PER_NODE - 1) |->
            prog[k \div INSTRUCTIONS_PER_NODE][k % INSTRUCTIONS_PER_NODE]]

\* a program with an instruction beyond the longest pattern is run for
\* LongCycles steps, the others for MaxCycles
Horizon ==
  IF \E i \in Nodes : instructions[i * INSTRUCTIONS_PER_NODE + MaxBody] # None
  THEN LongCycles ELSE MaxCycles

\* ExecutionPlane::step, called at most Horizon times
ProgramStep ==
  /\ cycle < Horizon
  /\ StepPlane

ProgramNext == ProgramStep

ProgramSpec == ProgramInit /\ [][ProgramNext]_vars

\* ---------------------------------------------------------- vocabulary
\* the last call of step completed without a panic
Completed == cycle > 0 /\ fault = NoPanic

\* the instruction node i latched in the last step, and the slot it is in
Latched(i) == nodes[i].current_instruction
FetchedSlot(i) ==
  IF instructions[i * INSTRUCTIONS_PER_NODE
                  + before.nodes[i].instruction_pointer] # None
  THEN before.nodes[i].instruction_pointer
  ELSE 0
NextSlot(s) == (s + 1) % INSTRUCTIONS_PER_NODE

\* node i latched a port read (ADD or MOV with a port source) of direction d
ReadsPort(i, d) ==
  /\ Latched(i) # None
  /\ Latched(i)[1].op \in {"Mov", "Add"}
  /\ Latched(i)[1].src = PortOp(d)

\* node i latched a MOV of a literal or a register to the port of direction d
WritesPort(i, d) ==
  /\ Latched(i) # None
  /\ Latched(i)[1].op = "Mov"
  /\ Latched(i)[1].src.k \in {"Literal", "Register"}
  /\ Latched(i)[1].dst = PortOp(d)

\* node i took a word from the mailbox of edge e in the last step
TookFrom(i, e) ==
  \E k \in DOMAIN log.takes : log.takes[k].node = i /\ log.takes[k].edge = e

\* the node across the edge of a take
Across(t) ==
  {j \in Nodes : \E d \in Cardinal :
     map_port(d, t.node) = t.edge /\ reverse_map_node(d, t.node) = Some(j)}

\* C1 (as claimed): every word offered by a MOV to a port is consumed by
\* exactly one completed port read: each completed port read uses a word
\* taken from the mailbox of its edge in that cycle, each taken word is used
\* by one completed read, and every offered word is either taken or still
\* in a mailbox.
C1_ExactlyOnceDelivery ==
  /\ \A k \in DOMAIN log.reads : log.reads[k].fresh
  /\ Completed =>
       /\ tally.read = tally.taken
       /\ tally.offered
            = tally.taken + Cardinality({e \in Edges : ports[e] # None})

\* C2: a node leaves Write only in a cycle in which the node across its
\* edge took the word that writer had placed in the mailbox, and it leaves
\* to Run with ip advanced by one; the nodes unblocked in a cycle are
\* exactly the neighbours across the edges of that cycle's takes, so a
\* read that finds the mailbox empty unblocks nobody.
C2_WriterRetiredOnlyOnTake ==
  /\ \A w \in Nodes :
       before.nodes[w].mode = "Write" /\ nodes[w].mode # "Write" =>
         /\ nodes[w].mode = "Run"
         /\ nodes[w].instruction_pointer
              = NextSlot(before.nodes[w].instruction_pointer)
         /\ \E k \in DOMAIN log.takes :
              /\ log.takes[k].edge
                   = map_port(before.nodes[w].direction[1], w)
              /\ w \in Across(log.takes[k])
              /\ log.takes[k].by = w
  /\ \A k \in DOMAIN log.swept :
       \E j \in DOMAIN log.takes : log.swept[k] \in Across(log.takes[j])
  /\ Len(log.swept) <= Len(log.takes)

\* C2 witness: a writer was retired in the last cycle, the cycle in which
\* its neighbour took its word
C2_Witness ==
  /\ Completed
  /\ \E w \in Nodes :
       /\ before.nodes[w].mode = "Write"
       /\ nodes[w].mode = "Run"
       /\ log.swept = << w >>
       /\ \E k \in DOMAIN log.takes : log.takes[k].by = w

\* C3: a word taken in a cycle was in the mailbox when that cycle began,
\* placed by the flush of an earlier cycle; a word queued in a cycle that
\* completes is in no mailbox before the flush, which tags it with that
\* cycle.
C3_PickupOneCycleAfterPlacement ==
  /\ \A k \in DOMAIN log.takes :
       /\ log.takes[k].at < cycle
       /\ log.takes[k].at >= 1
       /\ before.ports[log.takes[k].edge] = Some(log.takes[k].value)
  /\ Completed =>
       \A k \in DOMAIN log.offers :
         /\ ports[log.offers[k].edge] # None
         /\ TagOf(tag, log.offers[k].edge).at = cycle
         /\ \A j \in DOMAIN log.takes :
              log.takes[j].edge = log.offers[k].edge
                => log.takes[j].at < cycle

\* C3 witness: a reader with a higher index than the writer, visited after
\* the writer queued its word, takes that word in the cycle after
C3_Witness ==
  \E k \in DOMAIN log.takes :
    /\ log.takes[k].at = cycle - 1
    /\ log.takes[k].by < log.takes[k].node
    /\ before.nodes[log.takes[k].node].mode = "Read"

\* two writes met on one edge in the last step: two nodes queued for the
\* same edge, or a node queued for an edge whose mailbox was full and was
\* not emptied in that step
Collision ==
  \/ \E j \in DOMAIN log.offers, k \in DOMAIN log.offers :
       j < k /\ log.offers[j].edge = log.offers[k].edge
  \/ \E k \in DOMAIN log.offers :
       /\ before.ports[log.offers[k].edge] # None
       /\ \A j \in DOMAIN log.takes :
            log.takes[j].edge # log.offers[k].edge

\* C4 (as claimed): a step in which two writes meet on one edge does not
\* complete: it faults with a write deadlock.
C4_WriteDeadlockReported ==
  (cycle > 0 /\ Collision /\ fault \in {NoPanic, "write deadlock"})
    => fault = "write deadlock"

\* C5 (as claimed): a node that ends a completed cycle in Read or Write has
\* the ip it had when the cycle began.
C5_BlockedNodeKeepsIp ==
  Completed =>
    \A i \in Nodes :
      nodes[i].mode \in {"Read", "Write"} =>
        nodes[i].instruction_pointer = before.nodes[i].instruction_pointer

\* C5 (amended): a node that ends a completed cycle in Read or Write has
\* the ip of the slot it fetched in that cycle: the ip it had when the
\* cycle began if that slot holds an instruction, and 0 if that slot is
\* empty.
C5_BlockedNodeKeepsFetchedIp ==
  Completed =>
    \A i \in Nodes :
      nodes[i].mode \in {"Read", "Write"} =>
        nodes[i].instruction_pointer = FetchedSlot(i)

\* C5 witness: a node began the cycle in Run on an empty slot, wrapped to
\* slot 0 and blocked there, while another node stayed blocked on its slot
C5_Witness ==
  /\ Completed
  /\ \E i \in Nodes :
       /\ nodes[i].mode \in {"Read", "Write"}
       /\ before.nodes[i].instruction_pointer = 1
       /\ nodes[i].instruction_pointer = 0
  /\ \E i \in Nodes :
       /\ nodes[i].mode \in {"Read", "Write"}
       /\ before.nodes[i].mode = nodes[i].mode

\* the slot fetch would latch if it advanced to the next non-empty slot
RECURSIVE NextNonEmpty(_, _, _)
NextNonEmpty(i, s, tries) ==
  IF tries = 0 \/ instructions[i * INSTRUCTIONS_PER_NODE + s] # None THEN s
  ELSE NextNonEmpty(i, NextSlot(s), tries - 1)

\* C6 (as claimed): the instruction a node latches is the one in the next
\* non-empty slot at or after its ip, wrapping; a node latches nothing only
\* when all its slots are empty.
C6_FetchSkipsEmptySlots ==
  Completed =>
    \A i \in Nodes :
      Latched(i)
        = instructions[i * INSTRUCTIONS_PER_NODE
                       + NextNonEmpty(i, before.nodes[i].instruction_pointer,
                                      INSTRUCTIONS_PER_NODE)]

\* C7 (as claimed): W and R adjacent, both in Run, their mailbox empty, W
\* latches MOV v to the port facing R and R latches MOV from the port
\* facing W to ACC: the cycle ends with W in Write, R in Read and R.acc
\* unchanged; the next cycle ends with both in Run, R.acc = v and both ips
\* one past the slot of the instruction.
C7_HandshakeTiming ==
  Completed =>
    \A w \in Nodes, dw \in Cardinal :
      reverse_map_node(dw, w) # None =>
        LET r == reverse_map_node(dw, w)[1]
            e == map_port(dw, w)
        IN /\ ( /\ before.nodes[w].mode = "Run"
                /\ before.nodes[r].mode = "Run"
                /\ before.ports[e] = None
                /\ WritesPort(w, dw)
                /\ Latched(r) = Some(Mov(PortOp(reverse(dw)), RegOp("Acc"))) )
              => /\ nodes[w].mode = "Write"
                 /\ nodes[r].mode = "Read"
                 /\ nodes[r].acc = before.nodes[r].acc
           /\ ( /\ before.nodes[w].mode = "Write"
                /\ before.nodes[w].direction = Some(dw)
                /\ before.nodes[r].mode = "Read"
                /\ before.nodes[r].direction = Some(reverse(dw))
                /\ before.tag[e] = Some([by |-> w, at |-> cycle - 1])
                /\ Latched(r) = Some(Mov(PortOp(reverse(dw)), RegOp("Acc"))) )
              => /\ nodes[w].mode = "Run"
                 /\ nodes[r].mode = "Run"
                 /\ nodes[r].acc = before.ports[e][1]
                 /\ nodes[w].instruction_pointer
                      = NextSlot(before.nodes[w].instruction_pointer)
                 /\ nodes[r].instruction_pointer
                      = NextSlot(before.nodes[r].instruction_pointer)

\* the late read of C8: node r began the cycle in Run and latched a port
\* read of direction d, and the node across that edge had its word in the
\* mailbox when the cycle began
LateRead(r, d) ==
  /\ Completed
  /\ before.nodes[r].mode = "Run"
  /\ ReadsPort(r, d)
  /\ before.ports[map_port(d, r)] # None
  /\ reverse_map_node(d, r) # None
  /\ TagOf(before.tag, map_port(d, r)).by = reverse_map_node(d, r)[1]

\* what a completed read of word v leaves in node r
Delivered(r, v) ==
  /\ nodes[r].port_read_buffer = Some(v)
  /\ (Latched(r)[1].op = "Mov" /\ Latched(r)[1].dst = RegOp("Acc"))
       => nodes[r].acc = v
  /\ Latched(r)[1].op = "Add"
       => nodes[r].acc = saturating_add(before.nodes[r].acc, v)

\* C8 (as claimed): a late read completes within its cycle: the reader
\* ends the cycle in Run with the word delivered and its ip one past the
\* slot, and the writer ends the cycle in Run.
C8_LateReadIsInstant ==
  \A r \in Nodes, d \in Cardinal :
    LateRead(r, d) =>
      /\ nodes[r].mode = "Run"
      /\ nodes[r].instruction_pointer = NextSlot(FetchedSlot(r))
      /\ Delivered(r, before.ports[map_port(d, r)][1])
      /\ nodes[reverse_map_node(d, r)[1]].mode = "Run"

\* C8 (amended): a late read by ADD or by MOV to a register completes
\* within its cycle as claimed; a late read by MOV to a port takes the word
\* in that cycle and ends the cycle in Write, ip on the slot, with the word
\* queued for the destination edge; in both cases the writer ends the
\* cycle in Run.
C8_LateRegisterReadIsInstant ==
  \A r \in Nodes, d \in Cardinal :
    LateRead(r, d) =>
      /\ nodes[reverse_map_node(d, r)[1]].mode = "Run"
      /\ TookFrom(r, map_port(d, r))
      /\ nodes[r].port_read_buffer = before.ports[map_port(d, r)]
      /\ Latched(r)[1].dst.k # "Port" =>
           /\ nodes[r].mode = "Run"
           /\ nodes[r].instruction_pointer = NextSlot(FetchedSlot(r))
           /\ Delivered(r, before.ports[map_port(d, r)][1])
      /\ Latched(r)[1].dst.k = "Port" =>
           /\ nodes[r].mode = "Write"
           /\ nodes[r].instruction_pointer = FetchedSlot(r)
           /\ \E k \in DOMAIN log.offers :
                /\ log.offers[k].node = r
                /\ log.offers[k].edge = map_port(Latched(r)[1].dst.v, r)
                /\ log.offers[k].value = before.ports[map_port(d, r)][1]

\* C8 witness: a late MOV from a port to ACC completed in one cycle
C8_Witness ==
  \E r \in Nodes, d \in Cardinal :
    /\ LateRead(r, d)
    /\ Latched(r) = Some(Mov(PortOp(d), RegOp("Acc")))
    /\ nodes[r].mode = "Run"
    /\ nodes[r].acc = before.ports[map_port(d, r)][1]
    /\ nodes[r].acc # before.nodes[r].acc

\* C9 (as claimed): a node on MOV port, port stays in Read on its slot
\* while the source mailbox is empty; in the cycle in which it takes the
\* source word it ends in Write on its slot with that word queued for the
\* destination edge and the upstream writer is retired.
C9_FusedMov ==
  Completed =>
    \A i \in Nodes, s \in Cardinal, d \in Cardinal :
      ( /\ Latched(i) = Some(Mov(PortOp(s), PortOp(d)))
        /\ before.nodes[i].mode \in {"Run", "Read"} )
      => /\ before.ports[map_port(s, i)] = None
              => /\ nodes[i].mode = "Read"
                 /\ nodes[i].instruction_pointer = FetchedSlot(i)
                 /\ \A k \in DOMAIN log.offers : log.offers[k].node # i
         /\ before.ports[map_port(s, i)] # None
              => /\ nodes[i].mode = "Write"
                 /\ nodes[i].instruction_pointer = FetchedSlot(i)
                 /\ \E k \in DOMAIN log.offers :
                      /\ log.offers[k].node = i
                      /\ log.offers[k].edge = map_port(d, i)
                      /\ log.offers[k].value
                           = before.ports[map_port(s, i)][1]
                 /\ \A w \in Nodes :
                      reverse_map_node(s, i) = Some(w)
                        => nodes[w].mode = "Run"

\* C10 (as claimed): a port read towards a direction with no neighbour
\* never completes: the node ends every completed cycle in Read on its
\* slot with acc unchanged, it queues no write and no node is unblocked
\* because of it.
C10_UnconnectedReadNeverCompletes ==
  Completed =>
    \A i \in Nodes, d \in Cardinal :
      ( /\ ReadsPort(i, d)
        /\ before.nodes[i].mode \in {"Run", "Read"}
        /\ reverse_map_node(d, i) = None )
      => /\ nodes[i].mode = "Read"
         /\ nodes[i].instruction_pointer = FetchedSlot(i)
         /\ nodes[i].acc = before.nodes[i].acc
         /\ \A k \in DOMAIN log.offers : log.offers[k].node # i
         /\ \A k \in DOMAIN log.takes : log.takes[k].node # i

\* the instruction node i fetches in the last step, if the step visits it
Fetched(i) == instructions[i * INSTRUCTIONS_PER_NODE + FetchedSlot(i)]

\* the last step visited node i: it completed, or no node before i had an
\* instruction that could have ended it
Reached(i) ==
  /\ cycle > 0
  /\ fault = NoPanic \/ \A j \in Nodes : j < i => Fetched(j) = None

\* the value of x clamped to the 16-bit range
Clamp(x) == IF x > 32767 THEN 32767 ELSE IF x < -32768 THEN -32768 ELSE x

\* C11: a node in Run that latches ADD with a literal or ACC as source ends
\* the cycle in Run, one slot further, with acc the sum of its old acc and
\* the operand clamped to [-32768, 32767], and bak unchanged.
C11_AddSaturates ==
  Completed =>
    \A i \in Nodes :
      ( /\ before.nodes[i].mode = "Run"
        /\ Latched(i) # None
        /\ Latched(i)[1].op = "Add"
        /\ \/ Latched(i)[1].src.k = "Literal"
           \/ Latched(i)[1].src = RegOp("Acc") )
      => LET operand == IF Latched(i)[1].src.k = "Literal"
                        THEN Latched(i)[1].src.v
                        ELSE before.nodes[i].acc
         IN /\ nodes[i].acc = Clamp(before.nodes[i].acc + operand)
            /\ nodes[i].bak = before.nodes[i].bak
            /\ nodes[i].mode = "Run"
            /\ nodes[i].instruction_pointer = NextSlot(FetchedSlot(i))

\* C11 witness: ADD 1 on acc = 32767 left acc at 32767, with a bak that
\* differs from acc
C11_Witness ==
  /\ Completed
  /\ \E i \in Nodes :
       /\ before.nodes[i].mode = "Run"
       /\ Latched(i) = Some(Add(LitOp(1)))
       /\ before.nodes[i].acc = 32767
       /\ nodes[i].acc = 32767
       /\ nodes[i].bak # nodes[i].acc

\* C12 (as claimed): a node in Run that fetches NEG ends the step without a
\* fault, with acc negated (32767 for acc = -32768) and bak unchanged.
C12_NegSaturates ==
  \A i \in Nodes :
    ( /\ Reached(i)
      /\ before.nodes[i].mode = "Run"
      /\ Fetched(i) = Some(Neg) )
    => /\ fault = NoPanic
       /\ nodes[i].acc = IF before.nodes[i].acc = -32768 THEN 32767
                         ELSE 0 - before.nodes[i].acc
       /\ nodes[i].bak = before.nodes[i].bak

\* C12, away from -32768: NEG on any other acc negates it without a fault
C12_NegExact ==
  \A i \in Nodes :
    ( /\ Reached(i)
      /\ before.nodes[i].mode = "Run"
      /\ Fetched(i) = Some(Neg)
      /\ before.nodes[i].acc # -32768 )
    => /\ fault = NoPanic
       /\ nodes[i].acc = 0 - before.nodes[i].acc
       /\ nodes[i].bak = before.nodes[i].bak

\* C13: in every state the ip of every node lies in 0 .. 20; a node that
\* fetches the instruction of slot 20 in a cycle and ends that cycle in Run,
\* having finished the instruction by itself or having been unblocked by
\* the sweep over clear_writes, has ip 0.
C13_IpInRange ==
  /\ \A i \in Nodes :
       nodes[i].instruction_pointer >= 0 /\ nodes[i].instruction_pointer < 21
  /\ Completed =>
       \A i \in Nodes :
         ( /\ FetchedSlot(i) = 20
           /\ nodes[i].mode = "Run" )
         => nodes[i].instruction_pointer = 0

\* C13 witness: a writer blocked on slot 20 was unblocked by the sweep and
\* its ip wrapped to 0
C13_Witness ==
  /\ Completed
  /\ \E i \in Nodes :
       /\ before.nodes[i].mode = "Write"
       /\ before.nodes[i].instruction_pointer = 20
       /\ \E k \in DOMAIN log.swept : log.swept[k] = i
       /\ nodes[i].mode = "Run"
       /\ nodes[i].instruction_pointer = 0

\* an instruction that uses no port
UsesNoPort(ins) == ins.src.k # "Port" /\ ins.dst.k # "Port"

\* the slots of node i that hold an instruction
Filled(i) ==
  {s \in Slots : instructions[i * INSTRUCTIONS_PER_NODE + s] # None}

\* the program of node i fills exactly the slots 0 .. k-1, k >= 1, with
\* instructions that use no port
StraightProgram(i) ==
  /\ Filled(i) # {}
  /\ \A s \in Filled(i) :
       /\ s = 0 \/ s - 1 \in Filled(i)
       /\ UsesNoPort(instructions[i * INSTRUCTIONS_PER_NODE + s][1])

\* what instruction ins makes of the registers rg = [acc, bak]; NEG of
\* -32768 is left open here
Effect(ins, rg, now) ==
  IF ins.op = "Add" /\ ins.src.k = "Literal"
  THEN [acc |-> Clamp(rg.acc + ins.src.v), bak |-> rg.bak]
  ELSE IF ins.op = "Add" /\ ins.src = RegOp("Acc")
  THEN [acc |-> Clamp(rg.acc + rg.acc), bak |-> rg.bak]
  ELSE IF ins.op = "Neg"
  THEN [acc |-> IF rg.acc = -32768 THEN now.acc ELSE 0 - rg.acc,
        bak |-> rg.bak]
  ELSE IF ins.op = "Sav" THEN [acc |-> rg.acc, bak |-> rg.acc]
  ELSE IF ins.op = "Swp" THEN [acc |-> rg.bak, bak |-> rg.acc]
  ELSE now

\* C14: a node whose program fills the slots 0 .. k-1 with instructions
\* that use no port executes, in the c-th cycle, the instruction of slot
\* (c-1) mod k: it latches that instruction, applies it to its registers
\* and ends the cycle in Run one slot further; no cycle is idle.
C14_WrapWithoutStall ==
  Completed =>
    \A i \in Nodes :
      StraightProgram(i) =>
        LET k == Cardinality(Filled(i))
            slot == (cycle - 1) % k
            ins == instructions[i * INSTRUCTIONS_PER_NODE + slot]
        IN /\ FetchedSlot(i) = slot
           /\ Latched(i) = ins
           /\ nodes[i].mode = "Run"
           /\ nodes[i].instruction_pointer = NextSlot(slot)
           /\ [acc |-> nodes[i].acc, bak |-> nodes[i].bak]
                = Effect(ins[1],
                         [acc |-> before.nodes[i].acc,
                          bak |-> before.nodes[i].bak],
                         [acc |-> nodes[i].acc, bak |-> nodes[i].bak])

\* C14 witness: a node whose program fills slots 0 .. 19 began the cycle
\* on the empty slot 20 and executed slot 0 in that cycle
C14_Witness ==
  /\ Completed
  /\ \E i \in Nodes :
       /\ StraightProgram(i)
       /\ Cardinality(Filled(i)) = 20
       /\ before.nodes[i].instruction_pointer = 20
       /\ nodes[i].instruction_pointer = 1
       /\ nodes[i].acc # before.nodes[i].acc

\* a node whose program fills all 21 slots executed slot 20 in cycle 21
\* and slot 0 in cycle 22
C14_FullWrap ==
  /\ Completed
  /\ cycle = 22
  /\ \E i \in Nodes :
       /\ StraightProgram(i)
       /\ Cardinality(Filled(i)) = 21
       /\ before.nodes[i].instruction_pointer = 0
       /\ nodes[i].instruction_pointer = 1
       /\ nodes[i].acc # before.nodes[i].acc

\* the nodes that fetch HCF in the last step, if the step visits them
HcfNodes == {i \in Nodes : Fetched(i) = Some(Hcf)}

\* C15: a step in which a node dispatches HCF ends with a fault: with h the
\* first node that fetches HCF, the nodes after h are as they were, no
\* queued write has reached a mailbox and no writer has been unblocked.
C15_HcfFaults ==
  (cycle > 0 /\ HcfNodes # {}) =>
    LET h == CHOOSE i \in HcfNodes : \A j \in HcfNodes : i <= j IN
    /\ fault # NoPanic
    /\ \A j \in Nodes : j > h => nodes[j] = before.nodes[j]
    /\ \A e \in Edges : ports[e] # None => ports[e] = before.ports[e]
    /\ \A j \in Nodes :
         before.nodes[j].mode = "Write"
           => /\ nodes[j].mode = "Write"
              /\ nodes[j].instruction_pointer
                   = before.nodes[j].instruction_pointer
    /\ log.swept = << >>

\* C15 witness: a node queued a write and a later node dispatched HCF in
\* the same step: the step faulted and the write is still queued
C15_Witness ==
  /\ cycle > 0
  /\ fault # NoPanic
  /\ \E h \in HcfNodes, k \in DOMAIN log.offers :
       /\ log.offers[k].node < h
       /\ queued_writes[log.offers[k].edge] # None
       /\ ports[log.offers[k].edge] = None

\* C16 (as claimed): at the end of every cycle in which a node completed a
\* port read its read buffer is empty, and every completed port read uses a
\* word taken in that cycle, never the word of an earlier read.
C16_ReadBufferCleared ==
  Completed =>
    \A k \in DOMAIN log.reads :
      /\ nodes[log.reads[k].node].port_read_buffer = None
      /\ log.reads[k].fresh

\* C17: in every state from which a cycle can start, every node in Read
\* has a cardinal direction and an empty read buffer.
C17_ReadNodeShape ==
  fault = NoPanic =>
    \A i \in Nodes :
      nodes[i].mode = "Read" =>
        /\ nodes[i].direction # None
        /\ nodes[i].direction[1] \in {"Up", "Down", "Left", "Right"}
        /\ nodes[i].port_read_buffer = None

\* C17 witness: a node waits in Read on a LAST source, which resolved to
\* the direction of its earlier write
C17_Witness ==
  /\ Completed
  /\ \E i \in Nodes :
       /\ nodes[i].mode = "Read"
       /\ before.nodes[i].mode = "Read"
       /\ Latched(i) # None
       /\ Latched(i)[1].src = PortOp("Last")
       /\ nodes[i].direction = nodes[i].last_port

\* C18: in a cycle that completes, for every take from the mailbox of an
\* edge with a node across it, that node ends the cycle in Run with its ip
\* advanced by one (20 wraps to 0), whether its index is lower or higher
\* than the reader's.
C18_WriterRetiredInTakeCycle ==
  Completed =>
    \A k \in DOMAIN log.takes :
      \A w \in Across(log.takes[k]) :
        /\ nodes[w].mode = "Run"
        /\ nodes[w].instruction_pointer
             = (before.nodes[w].instruction_pointer + 1) % 21

\* C18 witness: the reader has the lower index, so the writer was visited,
\* still in Write, after the take, and was retired by the sweep
C18_Witness ==
  /\ Completed
  /\ \E k \in DOMAIN log.takes :
       \E w \in Across(log.takes[k]) :
         /\ w > log.takes[k].node
         /\ log.takes[k].by = w
         /\ before.nodes[w].mode = "Write"
         /\ nodes[w].mode = "Run"

\* node i entered Read in the last step: it began the step in Run and
\* latched an instruction with a port source
StartsRead(i) ==
  /\ before.nodes[i].mode = "Run"
  /\ Latched(i) # None
  /\ Latched(i)[1].src.k = "Port"

\* node i entered Write in the last step
StartsWrite(i) ==
  before.nodes[i].mode # "Write" /\ nodes[i].mode = "Write"

\* the direction a port operand p of node i stands for when the most
\* recent transfer of the node went to direction last
Resolve(p, last) == IF p = "Last" THEN last ELSE Some(p)

\* the direction of the read node i began in the last step, if any, else
\* the direction of its most recent transfer before the step
AfterRead(i) ==
  IF StartsRead(i)
  THEN Resolve(Latched(i)[1].src.v, before.nodes[i].last_port)
  ELSE before.nodes[i].last_port

\* the direction of the most recent transfer node i has begun
LastTransfer(i) ==
  IF StartsWrite(i) THEN Resolve(Latched(i)[1].dst.v, AfterRead(i))
  ELSE AfterRead(i)

\* C19: after every cycle that completes, the last_port of every node is
\* the direction of the most recent transfer it began (a read when it
\* entered Read, a write when it entered Write), LAST standing for the
\* direction of the transfer before; a node that began no transfer keeps
\* its last_port; and the transfer itself goes to that direction.
C19_LastTracksTransfers ==
  Completed =>
    \A i \in Nodes :
      /\ nodes[i].last_port = LastTransfer(i)
      /\ (StartsRead(i) \/ StartsWrite(i))
           => nodes[i].direction = LastTransfer(i)
      /\ StartsWrite(i) =>
           \E k \in DOMAIN log.offers :
             /\ log.offers[k].node = i
             /\ log.offers[k].edge = map_port(LastTransfer(i)[1], i)

\* C19 witness: a node whose last transfer was a read from the left began
\* a write to LAST, which went out to the left
C19_Witness ==
  /\ Completed
  /\ \E i \in Nodes :
       /\ StartsWrite(i)
       /\ Latched(i) = Some(Mov(LitOp(1), PortOp("Last")))
       /\ before.nodes[i].last_port = Some("Left")
       /\ before.nodes[i].direction = Some("Left")
       /\ before.nodes[i].port_read_buffer # None
       /\ nodes[i].direction = Some("Left")
       /\ nodes[i].last_port = Some("Left")
       /\ ports[map_port("Left", i)] # None

\* the nodes in Write whose pending direction maps to edge e
WritersOn(e) ==
  {i \in Nodes :
     /\ nodes[i].mode = "Write"
     /\ \E d \in {"Up", "Down", "Left", "Right"} :
          nodes[i].direction = Some(d) /\ map_port(d, i) = e}

\* C20: at the end of every cycle that completes, the mailbox of an edge
\* is occupied exactly when some node is in Write with its pending
\* direction mapping to that edge.
C20_MailboxIffWriter ==
  Completed =>
    \A e \in Edges : (ports[e] # None) <=> (WritersOn(e) # {})

\* C20 witness: in the last step a node took a word, which left that
\* mailbox empty and its writer in Run, and queued a write of its own,
\* which left another mailbox occupied
C20_Witness ==
  /\ Completed
  /\ \E k \in DOMAIN log.takes, j \in DOMAIN log.offers :
       /\ log.offers[j].node = log.takes[k].node
       /\ log.offers[j].edge # log.takes[k].edge
       /\ ports[log.takes[k].edge] = None
       /\ WritersOn(log.takes[k].edge) = {}
       /\ ports[log.offers[j].edge] # None
       /\ WritersOn(log.offers[j].edge) = {log.offers[j].node}

\* C21: in every cycle that completes, every node on the clear-writes list
\* is, when the sweep begins, in Write with its pending direction mapping
\* to the edge of a take of that cycle by the node across it, and is on the
\* list once; the sweep moves it one slot on.  So every node ends the cycle
\* on the slot it fetched or one slot after it, and only a node that began
\* the cycle in Write is swept.
C21_SweepHitsOnlyWriters ==
  Completed =>
    /\ \A k \in DOMAIN log.swept :
         LET w == log.swept[k]
             a == log.sweptAs[k]
         IN /\ a.mode = "Write"
            /\ a.direction # None
            /\ a.direction[1] \in {"Up", "Down", "Left", "Right"}
            /\ \E j \in DOMAIN log.takes :
                 /\ log.takes[j].edge = map_port(a.direction[1], w)
                 /\ w \in Across(log.takes[j])
            /\ \A l \in DOMAIN log.swept : l # k => log.swept[l] # w
            /\ before.nodes[w].mode = "Write"
            /\ nodes[w].instruction_pointer = (a.ip + 1) % 21
    /\ \A i \in Nodes :
         \/ nodes[i].instruction_pointer = FetchedSlot(i)
         \/ nodes[i].instruction_pointer = (FetchedSlot(i) + 1) % 21

\* C21 witness: the sweep retired one writer, one slot on, in a cycle in
\* which the reader that took its word began in Run and also moved one
\* slot on
C21_Witness ==
  /\ Completed
  /\ Len(log.swept) = 1
  /\ log.sweptAs[1].mode = "Write"
  /\ nodes[log.swept[1]].mode = "Run"
  /\ nodes[log.swept[1]].instruction_pointer = log.sweptAs[1].ip + 1
  /\ \E j \in DOMAIN log.takes :
       /\ log.swept[1] \in Across(log.takes[j])
       /\ before.nodes[log.takes[j].node].mode = "Run"
       /\ nodes[log.takes[j].node].mode = "Run"
       /\ nodes[log.takes[j].node].instruction_pointer
            = FetchedSlot(log.takes[j].node) + 1

====
